---- MODULE Spec2Model ----
(***************************************************************************)
(* A model of webpack-manifest-plugin (src/index.js).                      *)
(*                                                                         *)
(* Strings are sequences of tokens.  A token is one lexical unit of a      *)
(* path: a separator ("/", "\\"), the dot ".", the query mark "?", the     *)
(* marker "hot-update", or a run of ordinary characters ("main", "js").    *)
(* Paths follow the POSIX flavour of node's path module.                   *)
(***************************************************************************)
EXTENDS Integers, Sequences, FiniteSets, TLC

VARIABLES
  emitCountMap,  \* the module-level Map: output file -> counter
  config,        \* per instance, which of Configs it was constructed with
  seed,          \* per instance, the content of the options.seed object
  moduleAssets,  \* per instance, the moduleAssets side map of apply
  disk,          \* per output file, what fs.outputFileSync left and how often
  inserts,       \* per instance, the manifests inserted into compilation.assets
  afterEmit,     \* per instance, the after-emit notifications dispatched
  log,           \* the cycle-start and cycle-emit events delivered so far
  last           \* what the latest run of the emit handler read, computed and did

vars == <<emitCountMap, config, seed, moduleAssets, disk, inserts, afterEmit, log, last>>

\* Longest run of cycle-start / cycle-emit events the model explores.
MaxEvents == 5

\* A function-valued option that is not set.
Null == "null"

\* A value that may be null or undefined: None, or Some(x).
None == <<>>
Some(x) == <<x>>

\* The values a counter slot can hold: a number, NaN, or nothing (undefined).
Num(n) == [kind |-> "number", n |-> n]
NaN == [kind |-> "NaN", n |-> 0]
Undefined == [kind |-> "undefined", n |-> 0]

----------------------------------------------------------------------------
\* Generic sequence helpers.

Contains(s, t) == \E i \in 1..Len(s) : s[i] = t

RECURSIVE Flatten(_)
Flatten(ss) == IF ss = <<>> THEN <<>> ELSE Head(ss) \o Flatten(Tail(ss))

----------------------------------------------------------------------------
\* node's path module (POSIX) on token sequences.

\* String.prototype.split(sep): the segments between occurrences of sep.
RECURSIVE Split(_, _)
Split(s, sep) ==
  IF ~Contains(s, sep) THEN <<s>>
  ELSE LET i == CHOOSE k \in 1..Len(s) : s[k] = sep /\ \A j \in 1..(k - 1) : s[j] # sep
       IN <<SubSeq(s, 1, i - 1)>> \o Split(SubSeq(s, i + 1, Len(s)), sep)

\* Array.prototype.join(sep).
RECURSIVE JoinWith(_, _)
JoinWith(segs, sep) ==
  IF segs = <<>> THEN <<>>
  ELSE IF Len(segs) = 1 THEN segs[1]
  ELSE segs[1] \o <<sep>> \o JoinWith(Tail(segs), sep)

DotDot == <<".", ".">>

\* normalizeString: drops empty and "." segments and resolves ".." segments.
RECURSIVE NormalizeSegs(_, _, _)
NormalizeSegs(segs, acc, allowAbove) ==
  IF segs = <<>> THEN acc
  ELSE LET s == Head(segs)
           rest == Tail(segs)
       IN IF s = <<>> \/ s = <<".">> THEN NormalizeSegs(rest, acc, allowAbove)
          ELSE IF s = DotDot
               THEN IF acc # <<>> /\ acc[Len(acc)] # DotDot
                    THEN NormalizeSegs(rest, SubSeq(acc, 1, Len(acc) - 1), allowAbove)
                    ELSE IF allowAbove THEN NormalizeSegs(rest, Append(acc, s), allowAbove)
                         ELSE NormalizeSegs(rest, acc, allowAbove)
               ELSE NormalizeSegs(rest, Append(acc, s), allowAbove)

IsAbsolute(p) == p # <<>> /\ p[1] = "/"

\* path.normalize(p)
PathNormalize(p) ==
  IF p = <<>> THEN <<".">>
  ELSE LET abs == IsAbsolute(p)
           trailing == p[Len(p)] = "/"
           body == JoinWith(NormalizeSegs(Split(p, "/"), <<>>, ~abs), "/")
           body1 == IF body = <<>> /\ ~abs THEN <<".">> ELSE body
           body2 == IF body1 # <<>> /\ trailing THEN body1 \o <<"/">> ELSE body1
       IN IF abs THEN <<"/">> \o body2 ELSE body2

\* path.join(a, b)
PathJoin(a, b) ==
  IF a = <<>> /\ b = <<>> THEN <<".">>
  ELSE IF a = <<>> THEN PathNormalize(b)
  ELSE IF b = <<>> THEN PathNormalize(a)
  ELSE PathNormalize(a \o <<"/">> \o b)

\* path.resolve(a, b), a absolute: the absolute path without trailing separator.
PathResolve(a, b) ==
  LET full == IF IsAbsolute(b) THEN b ELSE a \o <<"/">> \o b
  IN <<"/">> \o JoinWith(NormalizeSegs(Split(full, "/"), <<>>, FALSE), "/")

RECURSIVE CommonPrefixLen(_, _)
CommonPrefixLen(a, b) ==
  IF a = <<>> \/ b = <<>> \/ Head(a) # Head(b) THEN 0
  ELSE 1 + CommonPrefixLen(Tail(a), Tail(b))

\* path.relative(from, to), both absolute.
PathRelative(from, to) ==
  LET f == NormalizeSegs(Split(from, "/"), <<>>, FALSE)
      t == NormalizeSegs(Split(to, "/"), <<>>, FALSE)
      n == CommonPrefixLen(f, t)
      ups == [i \in 1..(Len(f) - n) |-> DotDot]
  IN JoinWith(ups \o SubSeq(t, n + 1, Len(t)), "/")

\* path.dirname(p)
PathDirname(p) ==
  LET segs == Split(p, "/")
  IN IF Len(segs) = 1 THEN <<".">>
     ELSE LET d == JoinWith(SubSeq(segs, 1, Len(segs) - 1), "/")
          IN IF d = <<>> THEN <<"/">> ELSE d

\* path.basename(p)
PathBasename(p) == LET segs == Split(p, "/") IN segs[Len(segs)]

----------------------------------------------------------------------------
\* Manifests and other plain JS objects with string keys: a sequence of
\* [key, value] pairs in insertion order (the order JSON.stringify follows).

Keys(m) == {m[i].key : i \in 1..Len(m)}

HasKey(m, k) == \E i \in 1..Len(m) : m[i].key = k

Get(m, k) == m[CHOOSE i \in 1..Len(m) : m[i].key = k].value

\* m[k] = v: an existing key keeps its position, a new key is appended.
Put(m, k, v) ==
  IF HasKey(m, k)
  THEN [i \in 1..Len(m) |-> IF m[i].key = k THEN [key |-> k, value |-> v] ELSE m[i]]
  ELSE Append(m, [key |-> k, value |-> v])

----------------------------------------------------------------------------
\* The plugin instances, their compilers and options.

Insts == {1, 2}

NoBackslash == "noBackslash"
NameFromPath == "nameFromPath"
AssetsFirst == "assetsFirst"
ByPath == "byPath"

\* constructor: the defaults of Object.assign.
DefaultOptions ==
  [publicPath |-> None, basePath |-> <<>>, fileName |-> <<"manifest", ".", "json">>,
   writeToFileEmit |-> FALSE, seed |-> None, filter |-> Null, map |-> Null,
   generate |-> Null, sort |-> Null]

SeedA == <<[key |-> <<"seeded">>, value |-> <<"x">>],
           [key |-> <<"app", "/", "main", ".", "js">>, value |-> <<"old">>]>>

SeedB == <<[key |-> <<"s">>, value |-> <<"t">>]>>

\* The option sets the instances are constructed with.
Configs ==
  << DefaultOptions,
     [DefaultOptions EXCEPT !.basePath = <<"app", "/">>,
                            !.seed = Some(SeedA), !.writeToFileEmit = TRUE],
     [DefaultOptions EXCEPT !.basePath = <<"app", "\\">>,
                            !.publicPath = Some(<<"\\", "cdn", "\\">>),
                            !.filter = NoBackslash, !.map = NameFromPath,
                            !.sort = AssetsFirst, !.writeToFileEmit = TRUE],
     [DefaultOptions EXCEPT !.publicPath = Some(<<>>), !.generate = ByPath,
                            !.seed = Some(SeedB)],
     [DefaultOptions EXCEPT !.fileName = <<"other", ".", "json">>,
                            !.writeToFileEmit = TRUE] >>

ConfigsOf(i) == IF i = 1 THEN {1, 2, 3, 4} ELSE {5}

\* compiler.options.output.path
OutputFolderOf(i) == <<"/", "out">>

\* compiler.hooks exists (webpack 4) or not (legacy plugin API).
HasHooks(i) == i = 1

\* Variant of OutputFile: the counter is keyed by the output folder alone.
OutputFilePerFolder(i, opts) == PathResolve(OutputFolderOf(i), <<>>)

\* apply: the three paths derived from the compiler's output folder.
OutputFile(i, opts) == PathResolve(OutputFolderOf(i), opts.fileName)

OutputName(i, opts) == PathRelative(OutputFolderOf(i), OutputFile(i, opts))

\* Every key emitCountMap can hold.
OutputFiles == {OutputFile(i, Configs[c]) : i \in Insts, c \in 1..Len(Configs)}

----------------------------------------------------------------------------
\* What the build engine hands to the emit handler.

MainJs == <<"main", ".", "js">>
MainMap == <<"main", ".", "js", ".", "MAP">>
AltJs == <<"alt", ".", "js">>
HotJs == <<"0", ".", "hot-update", ".", "js">>
Favicon == <<"favicon", ".", "ico">>
FontFile == <<"fonts", "\\", "a", ".", "woff">>
ImgFile == <<"h1", ".", "png">>
ManifestJson == <<"manifest", ".", "json">>
DotManifestJson == <<".", "/", "manifest", ".", "json">>
OtherJson == <<"other", ".", "json">>
DataQuery == <<"data", ".", "json", "?", "v", ".", "2">>

\* A chunk: isOnlyInitial / isInitial are None when the engine's chunk has no
\* such method, else Some(what the method returns); initial is the property.
Chunk(name, files, isOnlyInitial, isInitial, initial) ==
  [name |-> name, files |-> files, isOnlyInitial |-> isOnlyInitial,
   isInitial |-> isInitial, initial |-> initial]

Asset(name, chunks) == [name |-> name, chunks |-> chunks]

\* compilation.chunks, compilation.getStats().toJson().assets and
\* compilation.options.output.publicPath of the compilations explored.
Builds ==
  << [chunks |-> <<Chunk(Some(<<"main">>), <<MainJs, MainMap>>,
                         Some(TRUE), Some(TRUE), FALSE),
                   Chunk(Some(<<"manifest">>), <<DataQuery>>,
                         Some(FALSE), Some(TRUE), FALSE),
                   Chunk(Some(<<"other">>), <<DataQuery, <<"map">>>>,
                         None, Some(TRUE), FALSE)>>,
      assets |-> <<Asset(MainJs, <<0>>), Asset(MainMap, <<0>>), Asset(Favicon, <<>>),
                   Asset(ManifestJson, <<>>), Asset(OtherJson, <<>>), Asset(ImgFile, <<>>)>>,
      publicPath |-> None],
     [chunks |-> <<Chunk(Some(<<"main">>), <<MainJs, AltJs>>, None, None, TRUE),
                   Chunk(None, <<HotJs, DotManifestJson>>, None, Some(FALSE), TRUE)>>,
      assets |-> <<Asset(MainJs, <<0>>), Asset(AltJs, <<0>>), Asset(FontFile, <<>>),
                   Asset(ImgFile, <<1>>)>>,
      publicPath |-> Some(<<"/", "pub", "/">>)] >>

\* module-asset notifications: the module's userRequest and the emitted file.
ModuleAssetEvents(i) ==
  IF i = 1
  THEN { [userRequest |-> <<"/", "src", "/", "other", ".", "json">>, file |-> ImgFile] }
  ELSE {}

\* The compilations each compiler runs.
BuildsOf(i) == IF i = 1 THEN 1..Len(Builds) ELSE {1}

----------------------------------------------------------------------------
\* Asset Classifier.

Lower(t) == IF t = "MAP" THEN "map" ELSE IF t = "GZ" THEN "gz" ELSE t

\* options.transformExtensions.test(extname), the default /^(gz|map)$/i
TransformExtensionsTest(extname) ==
  Len(extname) = 1 /\ Lower(extname[1]) \in {"gz", "map"}

\* filepath.replace(/\?.*/, '')
StripQuery(filepath) ==
  IF Contains(filepath, "?")
  THEN SubSeq(filepath, 1, (CHOOSE k \in 1..Len(filepath) :
                              filepath[k] = "?" /\ \A j \in 1..(k - 1) : filepath[j] # "?") - 1)
  ELSE filepath

getFileType(filepath) ==
  LET split == Split(StripQuery(filepath), ".")
      extname == split[Len(split)]
      popped == IF Len(split) > 1 THEN split[Len(split) - 1] ELSE <<"undefined">>
  IN IF TransformExtensionsTest(extname) THEN popped \o <<".">> \o extname ELSE extname

\* The logical name of a chunk file.
ChunkFileName(chunk, path) ==
  IF chunk.name # None /\ chunk.name[1] # <<>>
  THEN chunk.name[1] \o <<".">> \o getFileType(path)
  ELSE path

\* Webpack 4: .isOnlyInitial(), webpack 3: .isInitial(), webpack 1/2: .initial
ChunkIsInitial(chunk) ==
  IF chunk.isOnlyInitial # None THEN chunk.isOnlyInitial[1]
  ELSE IF chunk.isInitial # None THEN chunk.isInitial[1]
  ELSE chunk.initial

\* compilation.chunks.reduce(...): one entry per file of every chunk.
ChunkEntries(build) ==
  Flatten([c \in 1..Len(build.chunks) |->
    [f \in 1..Len(build.chunks[c].files) |->
      [path |-> build.chunks[c].files[f],
       chunk |-> c,
       name |-> ChunkFileName(build.chunks[c], build.chunks[c].files[f]),
       isInitial |-> ChunkIsInitial(build.chunks[c]),
       isChunk |-> TRUE, isAsset |-> FALSE, isModuleAsset |-> FALSE]]])

\* Variant of AssetEntry: the chunk membership is tested before the side map.
AssetEntryChunksFirst(asset, mAssets) ==
  IF Len(asset.chunks) > 0 THEN <<>>
  ELSE IF HasKey(mAssets, asset.name) /\ Get(mAssets, asset.name) # <<>>
  THEN <<[path |-> asset.name, chunk |-> 0, name |-> Get(mAssets, asset.name),
          isInitial |-> FALSE, isChunk |-> FALSE,
          isAsset |-> TRUE, isModuleAsset |-> TRUE]>>
  ELSE <<[path |-> asset.name, chunk |-> 0, name |-> asset.name,
          isInitial |-> FALSE, isChunk |-> FALSE,
          isAsset |-> TRUE, isModuleAsset |-> FALSE]>>

\* The entry, if any, that one emitted asset contributes.
AssetEntry(asset, mAssets) ==
  IF HasKey(mAssets, asset.name) /\ Get(mAssets, asset.name) # <<>>
  THEN <<[path |-> asset.name, chunk |-> 0, name |-> Get(mAssets, asset.name),
          isInitial |-> FALSE, isChunk |-> FALSE,
          isAsset |-> TRUE, isModuleAsset |-> TRUE]>>
  ELSE IF Len(asset.chunks) > 0 THEN <<>>
  ELSE <<[path |-> asset.name, chunk |-> 0, name |-> asset.name,
          isInitial |-> FALSE, isChunk |-> FALSE,
          isAsset |-> TRUE, isModuleAsset |-> FALSE]>>

\* stats.assets.reduce(..., files)
AssetEntries(build, mAssets) ==
  Flatten([a \in 1..Len(build.assets) |-> AssetEntry(build.assets[a], mAssets)])

\* The classified list; src numbers the entry objects in creation order.
Classify(build, mAssets) ==
  LET es == ChunkEntries(build) \o AssetEntries(build, mAssets)
  IN [k \in 1..Len(es) |-> [src |-> k] @@ es[k]]

----------------------------------------------------------------------------
\* Transform Pipeline.

\* emitCountMap.get(key)
MapGet(m, key) == IF key \in DOMAIN m THEN m[key] ELSE Undefined

\* Variant of NoiseKeep: only a manifest with a cycle in flight counts as one.
NoiseKeepPending(file, outputFolder, counts) ==
  LET isUpdateChunk == Contains(file.path, "hot-update")
      count == MapGet(counts, PathJoin(outputFolder, file.name))
      isManifest == count.kind = "number" /\ count.n > 0
  IN ~isUpdateChunk /\ ~isManifest

\* The predicate of the first files.filter: neither a hot update nor a manifest.
NoiseKeep(file, outputFolder, counts) ==
  LET isUpdateChunk == Contains(file.path, "hot-update")
      isManifest == MapGet(counts, PathJoin(outputFolder, file.name)) # Undefined
  IN ~isUpdateChunk /\ ~isManifest

NoiseFilter(files, outputFolder, counts) ==
  SelectSeq(files, LAMBDA file : NoiseKeep(file, outputFolder, counts))

\* if (options.basePath) files.map(file.name = options.basePath + file.name)
BasePrefix(files, basePath) ==
  IF basePath # <<>>
  THEN [k \in 1..Len(files) |-> [files[k] EXCEPT !.name = basePath \o @]]
  ELSE files

\* options.publicPath != null ? options.publicPath : compilation.options.output.publicPath
PublicPathOf(opts, build) ==
  IF opts.publicPath # None
  THEN opts.publicPath ELSE build.publicPath

\* if (publicPath) files.map(file.path = publicPath + file.path)
PublicPrefix(files, publicPath) ==
  IF publicPath # None /\ publicPath[1] # <<>>
  THEN [k \in 1..Len(files) |-> [files[k] EXCEPT !.path = publicPath[1] \o @]]
  ELSE files

\* str.replace(/\\/g, '/')
ReplaceBackslashes(str) == [k \in 1..Len(str) |-> IF str[k] = "\\" THEN "/" ELSE str[k]]

NormalizeSeparators(files) ==
  [k \in 1..Len(files) |->
     [files[k] EXCEPT !.name = ReplaceBackslashes(@), !.path = ReplaceBackslashes(@)]]

\* The user functions the configurations carry.
\*   noBackslash  : file => file.path.indexOf('\\') < 0 && file.name.indexOf('\\') < 0
\*   nameFromPath : file => { file.name = file.path; return file; }
\*   assetsFirst  : (a, b) => Number(b.isAsset) - Number(a.isAsset)
\*   byPath       : (seed, files) => files.reduce((m, f) => { m[f.path] = f.name; return m; },
\*                                                Object.assign({}, seed))
ApplyUserFilter(fn, file) ==
  IF fn = NoBackslash THEN ~Contains(file.path, "\\") /\ ~Contains(file.name, "\\") ELSE TRUE

ApplyUserMap(fn, file) ==
  IF fn = NameFromPath THEN [file EXCEPT !.name = file.path] ELSE file

\* Array.prototype.sort with the comparator (stable).
ApplyUserSort(fn, files) ==
  IF fn = AssetsFirst
  THEN SelectSeq(files, LAMBDA f : f.isAsset) \o SelectSeq(files, LAMBDA f : ~f.isAsset)
  ELSE files

UserFilter(files, fn) ==
  IF fn # Null THEN SelectSeq(files, LAMBDA file : ApplyUserFilter(fn, file)) ELSE files

UserMap(files, fn) ==
  IF fn # Null THEN [k \in 1..Len(files) |-> ApplyUserMap(fn, files[k])] ELSE files

UserSort(files, fn) == IF fn # Null THEN ApplyUserSort(fn, files) ELSE files

\* Variant of Pipeline: the separators are normalized after the user filter.
PipelineNormalizeLate(classified, opts, build, outputFolder, counts) ==
  LET noise == NoiseFilter(classified, outputFolder, counts)
      based == BasePrefix(noise, opts.basePath)
      published == PublicPrefix(based, PublicPathOf(opts, build))
      filtered == UserFilter(published, opts.filter)
      normalized == NormalizeSeparators(filtered)
      mapped == UserMap(normalized, opts.map)
      sorted == UserSort(mapped, opts.sort)
  IN [noise |-> noise, seen |-> published, files |-> sorted]

\* The seven stages in the order of the emit handler; seen is what the
\* user functions are first handed.
Pipeline(classified, opts, build, outputFolder, counts) ==
  LET noise == NoiseFilter(classified, outputFolder, counts)
      based == BasePrefix(noise, opts.basePath)
      published == PublicPrefix(based, PublicPathOf(opts, build))
      normalized == NormalizeSeparators(published)
      filtered == UserFilter(normalized, opts.filter)
      mapped == UserMap(filtered, opts.map)
      sorted == UserSort(mapped, opts.sort)
  IN [noise |-> noise, seen |-> normalized, files |-> sorted]

----------------------------------------------------------------------------
\* Manifest Builder.

RECURSIVE FoldFirstWins(_, _)
\* Variant of Fold: a name already in the manifest is not overwritten.
FoldFirstWins(manifest, files) ==
  IF files = <<>> THEN manifest
  ELSE FoldFirstWins(IF HasKey(manifest, Head(files).name) THEN manifest
                     ELSE Put(manifest, Head(files).name, Head(files).path),
                     Tail(files))

RECURSIVE Fold(_, _)
\* files.reduce((manifest, file) => { manifest[file.name] = file.path; ... }, manifest)
Fold(manifest, files) ==
  IF files = <<>> THEN manifest
  ELSE Fold(Put(manifest, Head(files).name, Head(files).path), Tail(files))

RECURSIVE FoldByPath(_, _)
FoldByPath(manifest, files) ==
  IF files = <<>> THEN manifest
  ELSE FoldByPath(Put(manifest, Head(files).path, Head(files).name), Tail(files))

ApplyGenerate(fn, seedObj, files) == FoldByPath(seedObj, files)

\* options.seed || {}
SeedOf(sd) == IF sd = None THEN <<>> ELSE sd[1]

BuildManifest(opts, sd, files) ==
  IF opts.generate # Null THEN ApplyGenerate(opts.generate, SeedOf(sd), files)
  ELSE Fold(SeedOf(sd), files)

\* The content of the options.seed object once the manifest is built: the
\* default fold writes into that very object, a fresh {} is not retained.
SeedAfter(opts, sd, manifest) ==
  IF opts.generate = Null /\ sd # None THEN Some(manifest) ELSE sd

\* JSON string literal: backslashes are escaped.
JsonString(str) ==
  <<"\"">> \o Flatten([k \in 1..Len(str) |-> IF str[k] = "\\" THEN <<"\\", "\\">> ELSE <<str[k]>>])
           \o <<"\"">>

\* The default options.serialize: JSON.stringify(manifest, null, 2)
Serialize(manifest) ==
  IF manifest = <<>> THEN <<"{", "}">>
  ELSE <<"{", "\n">>
       \o JoinWith([k \in 1..Len(manifest) |->
                      <<"  ">> \o JsonString(manifest[k].key) \o <<":", " ">>
                               \o JsonString(manifest[k].value)], ",\n")
       \o <<"\n", "}">>

----------------------------------------------------------------------------
\* Emission Coordinator and the handlers registered by apply.

\* emitCountMap.get(outputFile) - 1
Decrement(v) == IF v.kind = "number" THEN Num(v.n - 1) ELSE NaN

\* emitCountMap.get(outputFile) || 0
OrZero(v) == IF v.kind = "number" THEN v.n ELSE 0

\* Variant of IsLastEmit: the write is not gated on the counter at all.
IsLastEmitEveryCycle(emitCount) == TRUE

\* Variant of IsLastEmit: emitCount <= 0.
IsLastEmitNonPositive(emitCount) == emitCount.kind = "number" /\ emitCount.n <= 0

\* emitCount === 0
IsLastEmit(emitCount) == emitCount.kind = "number" /\ emitCount.n = 0

Options(i) == Configs[config[i]]

PathOf(i) == OutputFile(i, Options(i))

StartEvent(i) == [kind |-> "start", inst |-> i]

EmitEvent(i) == [kind |-> "emit", inst |-> i]

\* Variant of Notify: the notification is sent from inside the isLastEmit branch.
NotifyOnlyLastEmit(prev, hasHooks, manifest, isLastEmit) ==
  IF isLastEmit
  THEN [calls |-> prev.calls + 1, manifest |-> manifest,
        via |-> IF hasHooks THEN "hook" ELSE "applyPluginsAsync"]
  ELSE prev

\* The after-emit notification: webpackManifestPluginAfterEmit.call(manifest), or
\* applyPluginsAsync('webpack-manifest-plugin-after-emit', manifest, compileCallback).
Notify(prev, hasHooks, manifest, isLastEmit) ==
  [calls |-> prev.calls + 1, manifest |-> manifest,
   via |-> IF hasHooks THEN "hook" ELSE "applyPluginsAsync"]

\* compilation.assets[outputName] = { source: () => output, size: () => output.length }
InsertedAsset(i, opts, output) ==
  [name |-> OutputName(i, opts), source |-> output, size |-> Len(output)]

\* The emit handler.  Each \E binds one const of the handler to its value;
\* last records what this run computed and did.
Emit(i, b) ==
  /\ Len(log) < MaxEvents
  /\ \E opts \in {Options(i)} :
     \E outputFile \in {OutputFile(i, opts)} :
     \E emitCount \in {Decrement(MapGet(emitCountMap, outputFile))} :
     \E counts \in {[emitCountMap EXCEPT ![outputFile] = emitCount]} :
     \E classified \in {Classify(Builds[b], moduleAssets[i])} :
     \E piped \in {Pipeline(classified, opts, Builds[b], OutputFolderOf(i), counts)} :
     \E manifest \in {BuildManifest(opts, seed[i], piped.files)} :
     \E isLastEmit \in {IsLastEmit(emitCount)} :
     \E output \in {IF isLastEmit THEN Some(Serialize(manifest)) ELSE None} :
        /\ emitCountMap' = counts
        /\ seed' = [seed EXCEPT ![i] = SeedAfter(opts, @, manifest)]
        /\ inserts' = [inserts EXCEPT ![i] = IF isLastEmit THEN @ + 1 ELSE @]
        /\ disk' = IF isLastEmit /\ opts.writeToFileEmit
                   THEN [disk EXCEPT ![outputFile] =
                           [content |-> output, writes |-> @.writes + 1]]
                   ELSE disk
        /\ afterEmit' = [afterEmit EXCEPT ![i] =
                           Notify(@, HasHooks(i), manifest, isLastEmit)]
        /\ last' = [inst |-> i, build |-> b,
                    read |-> MapGet(emitCountMap, outputFile), emitCount |-> emitCount,
                    classified |-> classified, noise |-> piped.noise,
                    seen |-> piped.seen, files |-> piped.files,
                    seedBefore |-> SeedOf(seed[i]), moduleAssets |-> moduleAssets[i],
                    manifest |-> manifest,
                    isLastEmit |-> isLastEmit,
                    assets |-> IF isLastEmit
                               THEN Some(InsertedAsset(i, opts, output[1])) ELSE None,
                    written |-> IF isLastEmit /\ opts.writeToFileEmit THEN output ELSE None]
  /\ log' = Append(log, EmitEvent(i))
  /\ UNCHANGED <<config, moduleAssets>>

\* The run / watchRun / before-run / watch-run handler.
BeforeRun(i) ==
  /\ Len(log) < MaxEvents
  /\ LET outputFile == PathOf(i)
         emitCount == OrZero(MapGet(emitCountMap, outputFile))
     IN emitCountMap' = [emitCountMap EXCEPT ![outputFile] = Num(emitCount + 1)]
  /\ log' = Append(log, StartEvent(i))
  /\ UNCHANGED <<config, seed, moduleAssets, disk, inserts, afterEmit, last>>

\* The moduleAsset / module-asset handler.
ModuleAsset(i, ev) ==
  /\ moduleAssets' = [moduleAssets EXCEPT ![i] =
        Put(@, ev.file, PathJoin(PathDirname(ev.file), PathBasename(ev.userRequest)))]
  /\ UNCHANGED <<emitCountMap, config, seed, disk, inserts, afterEmit, log, last>>

Init ==
  /\ emitCountMap = [p \in OutputFiles |-> Undefined]
  /\ config \in {c \in [Insts -> 1..Len(Configs)] : \A i \in Insts : c[i] \in ConfigsOf(i)}
  /\ seed = [i \in Insts |-> Configs[config[i]].seed]
  /\ moduleAssets = [i \in Insts |-> <<>>]
  /\ disk = [p \in OutputFiles |-> [content |-> None, writes |-> 0]]
  /\ inserts = [i \in Insts |-> 0]
  /\ afterEmit = [i \in Insts |-> [calls |-> 0, manifest |-> <<>>, via |-> "none"]]
  /\ log = <<>>
  /\ last = [inst |-> 0]

Next ==
  \/ \E i \in Insts : BeforeRun(i)
  \/ \E i \in Insts : \E b \in BuildsOf(i) : Emit(i, b)
  \/ \E i \in Insts : \E ev \in ModuleAssetEvents(i) : ModuleAsset(i, ev)

Spec == Init /\ [][Next]_vars

----------------------------------------------------------------------------
\* Reading the event log.

LastIsEmit == log # <<>> /\ log[Len(log)].kind = "emit"

\* Two instances write the same manifest file.
SameTarget(i, j) ==
  OutputFolderOf(i) = OutputFolderOf(j) /\ Options(i).fileName = Options(j).fileName

\* The kinds of the events delivered for the output file of instance i.
KindsOf(i) ==
  LET mine == SelectSeq(log, LAMBDA ev : SameTarget(i, ev.inst))
  IN [k \in 1..Len(mine) |-> mine[k].kind]

Starts(h, n) == Cardinality({k \in 1..n : h[k] = "start"})

Emits(h, n) == Cardinality({k \in 1..n : h[k] = "emit"})

\* Cycles started and not yet emitted after the first n events.
Balance(h, n) == Starts(h, n) - Emits(h, n)

\* Every emit is preceded by its own start.
WellPaired(h) == \A n \in 1..Len(h) : Balance(h, n) >= 0

\* The emits that close the last outstanding cycle.
ClosingEmits(h) == {k \in 1..Len(h) : h[k] = "emit" /\ Balance(h, k) = 0}

\* n starts followed by k emits.
StartsThenEmits(h, n, k) ==
  /\ Len(h) = n + k
  /\ \A j \in 1..Len(h) : h[j] = IF j <= n THEN "start" ELSE "emit"

----------------------------------------------------------------------------
\* C1: for an output path whose events are well paired (every emit preceded
\* by its own start), an emit serializes the manifest, inserts it into the
\* compilation's assets and, with writeToFileEmit, writes the file exactly
\* when the counter after its decrement is 0.  The insertions and writes made
\* so far are one per emit that closed the last outstanding cycle: n starts
\* followed by n emits give one, by fewer emits give none, and leave the
\* counter at 0.
C1_LastCycleWins ==
  \A i \in Insts :
    \E h \in {KindsOf(i)} :
      WellPaired(h) =>
        /\ h # <<>> => emitCountMap[PathOf(i)] = Num(Balance(h, Len(h)))
        /\ inserts[i] = Cardinality(ClosingEmits(h))
        /\ disk[PathOf(i)].writes =
             IF Options(i).writeToFileEmit THEN Cardinality(ClosingEmits(h)) ELSE 0
        /\ \A n \in 1..MaxEvents : \A k \in 0..n :
             StartsThenEmits(h, n, k) =>
               /\ inserts[i] = IF k = n THEN 1 ELSE 0
               /\ k = n => emitCountMap[PathOf(i)] = Num(0)
        /\ (LastIsEmit /\ last.inst = i) =>
             /\ (last.assets # None) <=> (Balance(h, Len(h)) = 0)
             /\ (last.written # None) <=>
                  (Balance(h, Len(h)) = 0 /\ Options(i).writeToFileEmit)
             /\ last.assets # None =>
                  /\ last.assets[1].source = Serialize(last.manifest)
                  /\ last.assets[1].name = Options(i).fileName
             /\ last.written # None =>
                  /\ last.written[1] = Serialize(last.manifest)
                  /\ disk[PathOf(i)].content = last.written

\* Two starts then two emits with writeToFileEmit: exactly one write.
C1_Witness ==
  \E i \in Insts :
    /\ Options(i).writeToFileEmit
    /\ StartsThenEmits(KindsOf(i), 2, 2)
    /\ disk[PathOf(i)].writes = 1
    /\ inserts[i] = 1

----------------------------------------------------------------------------
\* C2: every emit dispatches the after-emit notification exactly once, with
\* the manifest computed in that emit, authoritative or not; the manifest of
\* a non-authoritative emit is built from its full file list all the same.
C2_NotifyEveryEmit ==
  /\ \A i \in Insts :
       afterEmit[i].calls = Cardinality({k \in 1..Len(log) : log[k] = EmitEvent(i)})
  /\ LastIsEmit =>
       /\ afterEmit[last.inst].manifest = last.manifest
       /\ afterEmit[last.inst].via =
            IF HasHooks(last.inst) THEN "hook" ELSE "applyPluginsAsync"
       /\ \A k \in 1..Len(last.files) :
            IF Options(last.inst).generate = Null
            THEN HasKey(last.manifest, last.files[k].name)
            ELSE HasKey(last.manifest, last.files[k].path)

\* A non-authoritative emit that notified a non-empty manifest.
C2_Witness ==
  /\ LastIsEmit
  /\ ~last.isLastEmit
  /\ last.assets = None
  /\ last.files # <<>>
  /\ afterEmit[last.inst].calls = 1
  /\ afterEmit[last.inst].manifest = last.manifest

----------------------------------------------------------------------------
\* One event applied to the counter of its own path.
CounterStep(v, kind) ==
  IF kind = "start"
  THEN IF v.kind = "number" THEN Num(v.n + 1) ELSE Num(1)
  ELSE IF v.kind = "number" THEN Num(v.n - 1) ELSE NaN

\* The counter a path holds after the events h delivered for it alone.
RECURSIVE CounterAfter(_)
CounterAfter(h) ==
  IF h = <<>> THEN Undefined
  ELSE CounterStep(CounterAfter(SubSeq(h, 1, Len(h) - 1)), h[Len(h)])

\* C3: the counter stored for an output path is decided by the starts and
\* emits delivered for that path alone, so an event of an instance targeting
\* another path leaves it unchanged; and whether an emit is the authoritative
\* one is decided by the events of its own path alone.
C3_PerPathIsolation ==
  /\ \A j \in Insts :
       MapGet(emitCountMap, PathResolve(OutputFolderOf(j), Options(j).fileName))
         = CounterAfter(KindsOf(j))
  /\ LastIsEmit => (last.isLastEmit <=> CounterAfter(KindsOf(last.inst)) = Num(0))

\* Both paths have a cycle in flight and the emit for one of them is
\* authoritative while the other path still waits.
C3_Witness ==
  /\ LastIsEmit
  /\ last.isLastEmit
  /\ \E j \in Insts :
       /\ ~SameTarget(last.inst, j)
       /\ emitCountMap[PathOf(j)] = Num(1)
  /\ emitCountMap[PathOf(last.inst)] = Num(0)

----------------------------------------------------------------------------
\* The manifest file of instance j, as a resolved path.
ManifestPathOf(j) == PathResolve(OutputFolderOf(j), Options(j).fileName)

\* The resolved output name of a classified entry of instance i.
ResolvedName(i, e) == PathJoin(OutputFolderOf(i), e.name)

\* e names the manifest of the emitting instance i or of an instance whose
\* output path is in the counter registry.
NamesTrackedManifest(i, e) ==
  \E j \in Insts :
    /\ j = i \/ emitCountMap[ManifestPathOf(j)] # Undefined
    /\ ResolvedName(i, e) = ManifestPathOf(j)

----------------------------------------------------------------------------
\* The seed instance i was configured with.
ConfiguredSeed(i) == Configs[config[i]].seed

\* C5 as claimed: an emit leaves the configured seed unchanged, and the
\* manifest it computes is decided by the configuration and the cycle's own
\* file list: every key is a key of the configured seed or comes from a file
\* of this cycle, so no key of an earlier cycle survives.
C5_Determinism ==
  /\ \A i \in Insts : seed[i] = ConfiguredSeed(i)
  /\ last.inst # 0 =>
       /\ last.seedBefore = SeedOf(ConfiguredSeed(last.inst))
       /\ \A n \in 1..Len(last.manifest) :
            \/ HasKey(SeedOf(ConfiguredSeed(last.inst)), last.manifest[n].key)
            \/ \E k \in 1..Len(last.files) :
                 last.manifest[n].key = IF Options(last.inst).generate = Null
                                        THEN last.files[k].name ELSE last.files[k].path

----------------------------------------------------------------------------
\* The position of the last entry of files named name.
LastNamed(files, name) ==
  CHOOSE k \in 1..Len(files) :
    /\ files[k].name = name
    /\ \A m \in (k + 1)..Len(files) : files[m].name # name

LastWithPath(files, path) ==
  CHOOSE k \in 1..Len(files) :
    /\ files[k].path = path
    /\ \A m \in (k + 1)..Len(files) : files[m].path # path

\* C6: without generate the manifest is the seed (the empty mapping when
\* unset) updated by manifest[file.name] = file.path in file order: its keys
\* are the seed's keys and the file names, a name carried by several entries
\* maps to the path of the last of them, and a seed key no entry names keeps
\* its seed value.  With generate the manifest is generate(seed, files).
C6_LastWinsFold ==
  last.inst # 0 =>
    IF Options(last.inst).generate = Null
    THEN /\ Keys(last.manifest) =
              Keys(last.seedBefore) \cup {last.files[k].name : k \in 1..Len(last.files)}
         /\ Len(last.manifest) = Cardinality(Keys(last.manifest))
         /\ \A n \in 1..Len(last.manifest) :
              IF \E k \in 1..Len(last.files) : last.files[k].name = last.manifest[n].key
              THEN last.manifest[n].value =
                     last.files[LastNamed(last.files, last.manifest[n].key)].path
              ELSE last.manifest[n].value = Get(last.seedBefore, last.manifest[n].key)
    ELSE /\ Keys(last.manifest) =
              Keys(last.seedBefore) \cup {last.files[k].path : k \in 1..Len(last.files)}
         /\ \A n \in 1..Len(last.manifest) :
              IF \E k \in 1..Len(last.files) : last.files[k].path = last.manifest[n].key
              THEN last.manifest[n].value =
                     last.files[LastWithPath(last.files, last.manifest[n].key)].name
              ELSE last.manifest[n].value = Get(last.seedBefore, last.manifest[n].key)

\* Two final entries share a name and differ in path, that name is a seed key
\* too, and another seed key is named by no entry.
C6_Witness ==
  /\ last.inst # 0
  /\ Options(last.inst).generate = Null
  /\ \E k, m \in 1..Len(last.files) :
       /\ k < m
       /\ last.files[k].name = last.files[m].name
       /\ last.files[k].path # last.files[m].path
       /\ HasKey(last.seedBefore, last.files[k].name)
       /\ Get(last.manifest, last.files[k].name) = last.files[m].path
  /\ \E n \in 1..Len(last.seedBefore) :
       \A k \in 1..Len(last.files) : last.files[k].name # last.seedBefore[n].key

----------------------------------------------------------------------------
\* The public path an emit of instance i prefixes: the plugin option, or the
\* engine's setting when the option is null; nothing when neither is set.
EffectivePublicPath(i, b) ==
  IF Options(i).publicPath # None THEN Options(i).publicPath[1]
  ELSE IF Builds[b].publicPath # None THEN Builds[b].publicPath[1]
  ELSE <<>>

\* A classified entry of instance i survives the noise filter: judged on its
\* name and path as classified, before any prefixing.
SurvivesNoise(i, e) ==
  /\ ~Contains(e.path, "hot-update")
  /\ emitCountMap[ManifestPathOf(i)] # Undefined
  /\ \A p \in DOMAIN emitCountMap :
       emitCountMap[p] # Undefined => ResolvedName(i, e) # p

\* A surviving entry as the user functions first see it: prefixed, then
\* separator-normalized.
Presented(i, b, e) ==
  [e EXCEPT !.name = ReplaceBackslashes(Options(i).basePath \o e.name),
            !.path = ReplaceBackslashes(EffectivePublicPath(i, b) \o e.path)]

\* C7: the final file list is sort(map(filter(normalize(publicPrefix(
\* basePrefix(noiseFilter(classified))))))), an unconfigured stage being the
\* identity.  The base path is prepended to the name only, the public path
\* (the option, else the engine's) to the path only; the user filter, map and
\* sort get entries already prefixed and normalized; the noise filter judges
\* the names as classified.
C7_PipelineOrder ==
  LastIsEmit =>
    \E i \in {last.inst} :
    \E kept \in {SelectSeq(last.classified, LAMBDA e : SurvivesNoise(i, e))} :
    \E presented \in {[k \in 1..Len(kept) |-> Presented(i, last.build, kept[k])]} :
    \E passed \in {SelectSeq(presented,
                             LAMBDA f : ApplyUserFilter(Options(i).filter, f))} :
      /\ last.noise = kept
      /\ last.seen = presented
      /\ last.files =
           ApplyUserSort(Options(i).sort,
                         [k \in 1..Len(passed) |-> ApplyUserMap(Options(i).map, passed[k])])

\* Base path, public path, filter, map and sort are all configured; an entry
\* classified with a backslash path passes the user filter, and the engine
\* listed the manifest itself.
C7_Witness ==
  /\ LastIsEmit
  /\ Options(last.inst).basePath # <<>>
  /\ Options(last.inst).publicPath # None
  /\ Options(last.inst).filter # Null
  /\ Options(last.inst).map # Null
  /\ Options(last.inst).sort # Null
  /\ Len(last.noise) < Len(last.classified)
  /\ \E n \in 1..Len(last.files) :
       Contains(last.classified[last.files[n].src].path, "\\")
  /\ \E n \in 1..(Len(last.files) - 1) :
       ~last.seen[n].isAsset /\ last.seen[n + 1].isAsset /\ last.files[1].isAsset

----------------------------------------------------------------------------
InSideMap(asset) ==
  HasKey(last.moduleAssets, asset.name) /\ Get(last.moduleAssets, asset.name) # <<>>

\* The chunk files of a build, chunk by chunk.
ChunkFilesOf(build) == Flatten([c \in 1..Len(build.chunks) |-> build.chunks[c].files])

\* The assets of a build that contribute an entry.
ContributingAssets(build) ==
  SelectSeq(build.assets, LAMBDA a : InSideMap(a) \/ Len(a.chunks) = 0)

\* C8 as claimed: every classified entry has exactly one of isChunk, isAsset,
\* isModuleAsset set; a module asset has isModuleAsset and not isAsset.
C8_ExactlyOneFlag ==
  last.inst # 0 =>
    \A k \in 1..Len(last.classified) :
      \E e \in {last.classified[k]} :
        /\ Cardinality({f \in {"isChunk", "isAsset", "isModuleAsset"} : e[f]}) = 1
        /\ e.isModuleAsset => ~e.isAsset

\* C8 as amended: the chunk-file entries come first, one per file of every
\* chunk, with isChunk alone set.  Then, in asset order: an asset whose path
\* is a key of the side map gives an entry named by the map with isModuleAsset
\* and isAsset both set; an asset not in the side map and in no chunk gives an
\* entry with isAsset alone set; an asset not in the side map and in some
\* chunk gives no entry.
C8_OriginFlags ==
  last.inst # 0 =>
    \E build \in {Builds[last.build]} :
    \E nChunk \in {Len(ChunkFilesOf(build))} :
    \E contrib \in {ContributingAssets(build)} :
      /\ Len(last.classified) = nChunk + Len(contrib)
      /\ \A k \in 1..nChunk :
           \E e \in {last.classified[k]} :
             /\ e.path = ChunkFilesOf(build)[k]
             /\ e.isChunk /\ ~e.isAsset /\ ~e.isModuleAsset
      /\ \A k \in 1..Len(contrib) :
           \E e \in {last.classified[nChunk + k]} :
             /\ e.path = contrib[k].name
             /\ ~e.isChunk /\ e.isAsset /\ ~e.isInitial
             /\ IF InSideMap(contrib[k])
                THEN e.isModuleAsset /\ e.name = Get(last.moduleAssets, contrib[k].name)
                ELSE ~e.isModuleAsset /\ e.name = contrib[k].name

\* The side map names an asset that belongs to a chunk; it yields a
\* module-asset entry, while an unmapped asset of a chunk yields none.
C8_Witness ==
  /\ last.inst # 0
  /\ \E a \in 1..Len(Builds[last.build].assets) :
       /\ InSideMap(Builds[last.build].assets[a])
       /\ Len(Builds[last.build].assets[a].chunks) > 0
       /\ \E k \in 1..Len(last.classified) :
            /\ last.classified[k].isModuleAsset
            /\ last.classified[k].isAsset
            /\ last.classified[k].path = Builds[last.build].assets[a].name
  /\ \E a \in 1..Len(Builds[last.build].assets) :
       /\ ~InSideMap(Builds[last.build].assets[a])
       /\ Len(Builds[last.build].assets[a].chunks) > 0

----------------------------------------------------------------------------
\* The emit just run found no counter entry, or a counter of 0.
SpuriousEmit == LastIsEmit /\ (last.read = Undefined \/ last.read = Num(0))

\* C9 as claimed: an emit without a matching start leaves a negative counter
\* and serializes, inserts and writes nothing.
C9_NegativeCounter ==
  SpuriousEmit =>
    /\ emitCountMap[PathOf(last.inst)].kind = "number"
    /\ emitCountMap[PathOf(last.inst)].n < 0
    /\ last.assets = None
    /\ last.written = None

\* C9 as amended: an emit that finds no counter entry stores NaN, one that
\* finds 0 stores -1; either way the handler runs to its notification and
\* serializes, inserts and writes nothing.  In every emit the write happens
\* exactly when the stored counter is the number 0.
C9_SpuriousEmitSkipsWrite ==
  LastIsEmit =>
    /\ emitCountMap[PathOf(last.inst)] = last.emitCount
    /\ last.read = Undefined => last.emitCount = NaN
    /\ last.read = Num(0) => last.emitCount = Num(-1)
    /\ SpuriousEmit =>
         /\ last.emitCount # Num(0)
         /\ ~last.isLastEmit
         /\ last.assets = None
         /\ last.written = None
         /\ afterEmit[last.inst].manifest = last.manifest
    /\ (last.assets # None) <=> (last.emitCount = Num(0))
    /\ last.written # None => last.emitCount = Num(0)

\* The very first event of a path is an emit: the counter is NaN.
C9_Witness ==
  /\ SpuriousEmit
  /\ last.read = Undefined
  /\ emitCountMap[PathOf(last.inst)] = NaN
  /\ last.files # <<>>
  /\ afterEmit[last.inst].calls = 1
  /\ inserts[last.inst] = 0

----------------------------------------------------------------------------
InFlightStep(n, kind) ==
  IF kind = "start" THEN n + 1 ELSE IF n > 0 THEN n - 1 ELSE 0

\* The cycles of a path that are started and not emitted after the events h,
\* an emit without a cycle in flight closing nothing.
RECURSIVE InFlight(_)
InFlight(h) ==
  IF h = <<>> THEN 0
  ELSE InFlightStep(InFlight(SubSeq(h, 1, Len(h) - 1)), h[Len(h)])

\* Some emit among the first n events of h had no cycle in flight.
HadSpuriousEmit(h, n) ==
  \E k \in 1..n : h[k] = "emit" /\ InFlight(SubSeq(h, 1, k - 1)) = 0

\* C10 as claimed: after a spurious emit on a path, a start delivered with no
\* other cycle in flight, followed by its emit, performs the authoritative
\* write.
C10_Recovery ==
  LastIsEmit =>
    \E h \in {KindsOf(last.inst)} :
      (/\ Len(h) >= 3
       /\ h[Len(h) - 1] = "start"
       /\ InFlight(SubSeq(h, 1, Len(h) - 2)) = 0
       /\ HadSpuriousEmit(h, Len(h) - 2))
      => /\ last.isLastEmit
         /\ last.assets # None

====
